---- MODULE Spec2Model ----
(***************************************************************************)
(* Payment lifecycle of pi_python.PiNetwork: initialize, get_balance,      *)
(* create_payment, submit_payment, complete_payment, cancel_payment and    *)
(* get_incomplete_server_payments, together with the two collaborators     *)
(* they talk to: the ledger node (Horizon) and the remote payment API.     *)
(*                                                                         *)
(* Decimal quantities (amounts, balances) are represented exactly as       *)
(* integer counts of 10^-7 units, the ledger's precision; the base fee is  *)
(* an integer count of the same unit, so Decimal(fee)/Decimal('10000000')  *)
(* is `fee` such counts.                                                   *)
(***************************************************************************)
EXTENDS Integers, FiniteSets, TLC

\* ------------------------------------------------------------------ bounds
MaxAmount == 1
MaxBalance == 2
LedgerBaseFee == 1
MaxSeq == 2

\* The identifiers the remote API hands out, the amounts callers ask for (a
\* negative one, which no check of the client stops, and the positive ones),
\* the balances the node reports and the network names passed to initialize (the
\* ledger and the remote API behave alike on either network, so one name is
\* drawn).
Ids == {"p1", "p2"}
Amounts == {-1} \cup (1 .. MaxAmount)
Balances == 0 .. MaxBalance
Networks == {"Pi Network"}

\* ------------------------------------------------------- class constants
MAINNET_URL == "https://api.mainnet.minepi.com"
TESTNET_URL == "https://api.testnet.minepi.com"

\* ------------------------------------------------------------ payment data
RequiredFields == {"amount", "memo", "metadata", "user_uid", "identifier", "to_address"}

\* None, as the default of submit_payment's pending_payment.
NoIntent == [kind |-> "none"]
\* The empty dict {}.
EmptyIntent == [kind |-> "empty"]

\* A dict holding the required fields except `missing` ("none": all six),
\* each with a non-empty value.
Dict(amount, identifier, missing) ==
    [kind |-> "dict", amount |-> amount, identifier |-> identifier,
     missing |-> missing, empty |-> "none"]

\* The dict with `field` set to an empty value: "" or {}.
WithEmpty(data, field) ==
    [data EXCEPT !.empty = field]

\* The dicts callers pass: one per amount with all six fields, one per
\* required field that lacks it, and dicts with an empty amount or memo.
Intents ==
    {Dict(a, "p1", "none") : a \in Amounts}
        \cup {Dict(1, "p1", m) : m \in RequiredFields}
        \cup {WithEmpty(Dict(1, "p1", "none"), f) : f \in {"amount", "memo"}}

\* What callers pass as pending_payment: nothing, {}, a complete dict, a dict
\* without 'amount' (the gate's lookup fails) or without another required
\* field (the builder's validation fails), and a dict with an empty memo.
PendingIntents ==
    {NoIntent, EmptyIntent}
        \cup {Dict(a, "p1", "none") : a \in Amounts}
        \cup {Dict(1, "p1", m) : m \in {"amount", "memo"}}
        \cup {WithEmpty(Dict(1, "p1", "none"), "memo")}

\* `field in data`
HasField(data, field) ==
    /\ data.kind = "dict"
    /\ data.missing # field

\* Decimal(payment["amount"]): Decimal("") raises InvalidOperation.
AmountParses(data) ==
    data.empty # "amount"

\* add_text_memo, append_payment_op: the SDK takes an empty memo text, and
\* raises on an empty destination address and on a negative amount.
SdkAccepts(data) ==
    /\ data.empty # "to_address"
    /\ data.amount >= 0

\* A validation that is content with any one required field.
ValidatePaymentData_Any(data) ==
    \E field \in RequiredFields : HasField(data, field)

\* all(field in data for field in required_fields)
ValidatePaymentData(data) ==
    \A field \in RequiredFields : HasField(data, field)

\* `pending_payment is not None` in place of truthiness: {} counts as given.
Truthy_NotNone(data) ==
    data.kind # "none"

\* Python truthiness of an Optional[Dict]: None and {} are falsy.
Truthy(data) ==
    data.kind = "dict"

\* ------------------------------------------------------------ signing seed
\* A seed as far as the code looks at it: its first character, its length,
\* and whether Keypair.from_secret decodes it (base32 alphabet and checksum).
Seeds ==
    {[lead |-> l, len |-> n, decodes |-> FALSE] : l \in {"S", "s", "G"}, n \in {55, 56}}
        \cup {[lead |-> "S", len |-> 56, decodes |-> TRUE]}

\* No seed: the call was not an initialize.
NoSeed == [lead |-> "", len |-> 0, decodes |-> FALSE]

Upper(c) == IF c = "s" THEN "S" ELSE c

\* seed.upper().startswith('S') and len(seed) == 56
ValidatePrivateSeedFormat(seed) ==
    /\ Upper(seed.lead) = "S"
    /\ seed.len = 56

\* Keypair.from_secret: the strkey decoder accepts an upper-case 'S' seed
\* of 56 characters with a good checksum only.
FromSecretOk(seed) ==
    /\ seed.lead = "S"
    /\ seed.len = 56
    /\ seed.decodes

\* self.MAINNET_URL if network == "Pi Network" else self.TESTNET_URL
UrlFor(network) ==
    IF network = "Pi Network" THEN MAINNET_URL ELSE TESTNET_URL

\* --------------------------------------------------------------- the state
VARIABLES
    api_key,        \* self._api_key
    server,         \* self._server: "" (None) or the Horizon URL it is bound to
    account,        \* self._account: [loaded, sequence]
    base_url,       \* self._base_url
    network,        \* self._network
    keypair,        \* self._keypair is not None
    fee,            \* self._fee
    open_payments,  \* self._open_payments: a function on the registered ids
    nodeBalance,    \* the ledger: native balance of the held account
    ledgerSeq,      \* the ledger: sequence number of the held account
    accepted,       \* the ledger: transactions accepted, per memo identifier
    initHistory,    \* history: "never" initialized, only "failed", or once "ok"
    liveSubmit,     \* history: ids created and not since submitted
    threads,        \* per thread: where its submit_payment call stands, its locals
    last            \* the last call: its arguments, what it did, what it returned

vars ==
    <<api_key, server, account, base_url, network, keypair, fee, open_payments,
      nodeBalance, ledgerSeq, accepted, initHistory, liveSubmit,
      threads, last>>

session == <<api_key, server, account, base_url, network, keypair, fee>>
ledger == <<nodeBalance, ledgerSeq, accepted>>
history == <<initHistory, liveSubmit>>

NoAccount == [loaded |-> FALSE, sequence |-> 0]
EmptyRegistry == [i \in {} |-> NoIntent]

\* The exception classes the handlers meet, all of them subclasses of
\* Exception: the code's own PiNetworkError, Python's on a None attribute or a
\* missing key, and the SDK's and the transport's errors.
ExceptionSubclasses ==
    {"PiNetworkError", "AttributeError", "KeyError", "ValueError",
     "InvalidOperation", "ConnectionError", "BadRequestError", "NotFoundError"}

\* `except PiNetworkError` in place of `except Exception`.
Escapes_OnlyPiNetworkError(exc) ==
    exc \notin {"", "PiNetworkError"}

\* `except Exception as e:` around the body of every public method: whether
\* `exc` raised inside the body ("" if nothing was) reaches the caller.
Escapes(exc) ==
    /\ exc # ""
    /\ exc \notin ExceptionSubclasses

\* What a call did; every field has a value for every operation.
NoCall ==
    [op |-> "none", id |-> "", data |-> NoIntent, ret |-> "", ok |-> FALSE,
     exc |-> "", raised |-> FALSE, balRead |-> FALSE, bal |-> 0, nodeReq |-> FALSE,
     gateway |-> FALSE, apiReq |-> FALSE, built |-> FALSE, signed |-> FALSE,
     submitted |-> FALSE, ledgerOk |-> FALSE, regBefore |-> EmptyRegistry,
     softFail |-> FALSE, carried |-> FALSE, remoteCreated |-> FALSE,
     seed |-> NoSeed]

NoTransaction == [sequence |-> 0, memo |-> "", amount |-> 0, fee |-> 0]

\* The threads that call into one session, and a thread that is not inside
\* a call: `payment`, `balance` and `tx` are submit_payment's locals.
Threads == {"t1", "t2"}
Idle ==
    [pc |-> "idle", id |-> "", payment |-> NoIntent, balance |-> 0,
     tx |-> NoTransaction, sent |-> FALSE, ret |-> ""]

\* __init__
Init ==
    /\ api_key = ""
    /\ server = ""
    /\ account = NoAccount
    /\ base_url = ""
    /\ network = ""
    /\ keypair = FALSE
    /\ fee = 0
    /\ open_payments = EmptyRegistry
    /\ nodeBalance \in Balances
    /\ ledgerSeq = 0
    /\ accepted = [i \in Ids |-> 0]
    /\ initHistory = "never"
    /\ liveSubmit = {}
    /\ threads = [t \in Threads |-> Idle]
    /\ last = NoCall

\* ------------------------------------------------------------- initialize
\* The steps at which initialize can stop: "format" (the seed check raises),
\* "keypair" (from_secret raises), and with a seed that decodes, as the node
\* answers: "load" (load_account raises), "fee" (fetch_base_fee raises) or
\* "done".
InitStops(seed) ==
    IF ~ValidatePrivateSeedFormat(seed) THEN {"format"}
    ELSE IF ~FromSecretOk(seed) THEN {"keypair"}
    ELSE {"load", "fee", "done"}

\* What is raised inside initialize when it stops at `stop`.
InitException(stop) ==
    CASE stop = "format" -> "PiNetworkError"
      [] stop = "keypair" -> "ValueError"
      [] stop = "load" -> "NotFoundError"
      [] stop = "fee" -> "ConnectionError"
      [] OTHER -> ""

Initialize(key, seed, net) ==
    \E stop \in InitStops(seed) :
    /\ api_key' = IF stop = "format" THEN api_key ELSE key
    /\ keypair' = IF stop \in {"format", "keypair"} THEN keypair ELSE TRUE
    /\ server' = IF stop \in {"format", "keypair"} THEN server ELSE UrlFor(net)
    /\ account' = IF stop \in {"format", "keypair", "load"} THEN account
                  ELSE [loaded |-> TRUE, sequence |-> ledgerSeq]
    /\ base_url' = IF stop \in {"format", "keypair", "load"} THEN base_url
                   ELSE UrlFor(net)
    /\ network' = IF stop \in {"format", "keypair", "load"} THEN network ELSE net
    /\ fee' = IF stop = "done" THEN LedgerBaseFee ELSE fee
    /\ initHistory' = IF stop = "done" \/ initHistory = "ok" THEN "ok" ELSE "failed"
    /\ last' = [NoCall EXCEPT
                   !.op = "initialize",
                   !.seed = seed,
                   !.ok = (stop = "done"),
                   !.ret = IF stop = "done" THEN "True" ELSE "False",
                   !.exc = InitException(stop),
                   !.raised = Escapes(InitException(stop)),
                   !.nodeReq = (stop \in {"load", "fee", "done"}),
                   !.regBefore = open_payments]
    /\ UNCHANGED <<open_payments, ledger, liveSubmit, threads>>

\* ------------------------------------------------------------ get_balance
\* self._server.accounts()... reaches the node only with a server and a
\* keypair; on None either attribute access raises and is swallowed.
CanQueryNode ==
    /\ server # ""
    /\ keypair

BalanceOutcomes == {"fail", "no_native", "ok"}

\* The answers a call can meet: without a server and a keypair no query
\* leaves the client.
QueryOutcomes ==
    IF CanQueryNode THEN BalanceOutcomes ELSE {"fail"}

\* A get_balance that trusts whatever the node last held, answer or not.
BalanceOf_Unchecked(q) ==
    IF CanQueryNode THEN nodeBalance ELSE 0

\* The Decimal get_balance returns when the node answers as `q`.
BalanceOf(q) ==
    IF CanQueryNode /\ q = "ok" THEN nodeBalance ELSE 0

\* get_balance returned Decimal(0) from its handler or after the loop found
\* no native entry, not a balance the node reported.
SoftFailed(q) ==
    \/ ~CanQueryNode
    \/ q \in {"fail", "no_native"}

\* What is raised inside get_balance.
BalanceException(q) ==
    IF ~CanQueryNode THEN "AttributeError"
    ELSE IF q = "fail" THEN "ConnectionError"
    ELSE ""

GetBalance(q) ==
    /\ last' = [NoCall EXCEPT
                   !.op = "get_balance",
                   !.exc = BalanceException(q),
                   !.raised = Escapes(BalanceException(q)),
                   !.balRead = TRUE,
                   !.bal = BalanceOf(q),
                   !.softFail = SoftFailed(q),
                   !.ok = (BalanceOf(q) # 0),
                   !.nodeReq = CanQueryNode,
                   !.regBefore = open_payments]
    /\ UNCHANGED <<session, open_payments, ledger, history, threads>>

\* --------------------------------------------------------- _make_request
\* requests.request raises MissingSchema, a RequestException, for a URL with
\* no scheme, before anything is sent: with _base_url still "" the URL is
\* "/v2/payments...". _make_request turns it into PiNetworkError.
RequestSent_Always ==
    TRUE

RequestSent ==
    base_url # ""

\* What happens to a create request that was sent: "fail" (the remote never
\* processes it: transport error or non-2xx status), "lost" (the remote
\* processes it and the answer does not arrive, or arrives with a body that is
\* not JSON), or a JSON body arrives.
CreateOutcomes == {"fail", "lost", "flat", "nested", "noid"}

\* The remote API created a payment intent for the request.
RemoteCreates(out) ==
    out \in {"lost", "flat", "nested"}

\* The JSON body that arrived holds an identifier, at the top or under
\* 'payment'.
CarriesIdentifier(out) ==
    out \in {"flat", "nested"}
AckOutcomes == {"fail", "ok"}

\* The payment DTO in the body of a create response.
ResponseDto(data, rid) ==
    Dict(data.amount, rid, "none")

\* A lookup that reads the top-level 'identifier' only.
ResponseIdentifier_TopOnly(out, rid) ==
    IF out = "flat" THEN rid ELSE ""

\* response.get('identifier') or response.get('payment', {}).get('identifier'):
\* the DTO is the body ("flat"), or sits under 'payment' ("nested"), or the
\* body carries no identifier ("noid").
ResponseIdentifier(out, rid) ==
    IF out \in {"flat", "nested"} THEN rid ELSE ""

\* ---------------------------------------------------------- the balance gate
\* A total cost that leaves the fee out.
TotalCost_NoFee(amount, f) ==
    amount

\* Decimal(amount) + (Decimal(self._fee) / Decimal('10000000'))
TotalCost(amount, f) ==
    amount + f

\* A gate that also refuses a total cost equal to the balance.
InsufficientBalance_AtLeast(total_cost, balance) ==
    total_cost >= balance

\* if total_cost > balance: return ""
InsufficientBalance(total_cost, balance) ==
    total_cost > balance

\* --------------------------------------------------------- the registry
\* A create that returns the identifier without recording the snapshot.
RegistryPut_Forget(reg, identifier, snapshot) ==
    reg

\* A create that files every snapshot under one fixed key.
RegistryPut_FixedKey(reg, identifier, snapshot) ==
    [i \in DOMAIN reg \cup {"p2"} |-> IF i = "p2" THEN snapshot ELSE reg[i]]

\* self._open_payments[identifier] = snapshot
RegistryPut(reg, identifier, snapshot) ==
    [i \in DOMAIN reg \cup {identifier} |-> IF i = identifier THEN snapshot ELSE reg[i]]

\* A submit that leaves the entry in place.
RegistryDel_Keep(reg, payment_id) ==
    reg

\* A submit that empties the registry.
RegistryDel_Clear(reg, payment_id) ==
    [i \in {} |-> reg[i]]

\* if payment_id in self._open_payments: del self._open_payments[payment_id]
RegistryDel(reg, payment_id) ==
    [i \in DOMAIN reg \ {payment_id} |-> reg[i]]

\* --------------------------------------------------------- create_payment
\* The effect and the return of create_payment once its path is known:
\* whether the balance was read (and what it was), whether _make_request was
\* called, and the identifier found in the response ("" if none).
CreateReturn(data, q, gateway, out, rid, exc) ==
    LET balRead == q # "unread"
        balance == IF balRead THEN BalanceOf(q) ELSE 0
        identifier == ResponseIdentifier(out, rid)
        stored == identifier # ""
    IN
    /\ open_payments' = IF stored
                        THEN RegistryPut(open_payments, identifier, ResponseDto(data, rid))
                        ELSE open_payments
    /\ liveSubmit' = IF stored THEN liveSubmit \cup {identifier} ELSE liveSubmit
    /\ last' = [NoCall EXCEPT
                   !.op = "create_payment",
                   !.data = data,
                   !.ret = identifier,
                   !.exc = exc,
                   !.raised = Escapes(exc),
                   !.ok = stored,
                   !.balRead = balRead,
                   !.bal = balance,
                   !.nodeReq = (balRead /\ CanQueryNode),
                   !.softFail = (balRead /\ SoftFailed(q)),
                   !.gateway = gateway,
                   !.apiReq = (gateway /\ RequestSent),
                   !.carried = CarriesIdentifier(out),
                   !.remoteCreated = RemoteCreates(out),
                   !.regBefore = open_payments]
    /\ UNCHANGED <<session, ledger, initHistory, threads>>

CreatePayment(data) ==
    IF ~ValidatePaymentData(data)
    THEN CreateReturn(data, "unread", FALSE, "unsent", "", "PiNetworkError")
    ELSE \E q \in QueryOutcomes :
        IF ~AmountParses(data)
        THEN CreateReturn(data, q, FALSE, "unsent", "", "InvalidOperation")
        ELSE IF InsufficientBalance(TotalCost(data.amount, fee), BalanceOf(q))
        THEN CreateReturn(data, q, FALSE, "unsent", "", "")
        ELSE IF ~RequestSent
        THEN CreateReturn(data, q, TRUE, "unsent", "", "PiNetworkError")
        ELSE \E out \in CreateOutcomes :
            \E rid \in (IF CarriesIdentifier(out) THEN Ids ELSE {""}) :
            CreateReturn(data, q, TRUE, out, rid,
                         IF out \in {"fail", "lost"} THEN "PiNetworkError" ELSE "")

\* --------------------------------------------------------- submit_payment
\* if payment_id not in self._open_payments and not pending_payment: return ""
NothingToSubmit(payment_id, pending_payment) ==
    /\ payment_id \notin DOMAIN open_payments
    /\ ~Truthy(pending_payment)

\* pending_payment if pending_payment else self._open_payments[payment_id]
ResolvePayment(payment_id, pending_payment) ==
    IF Truthy(pending_payment) THEN pending_payment ELSE open_payments[payment_id]

\* _build_a2u_transaction up to build(): validation, then the builder, which
\* reads the source account (None before a successful load_account).
CanBuild(payment) ==
    /\ ValidatePaymentData(payment)
    /\ account.loaded

\* The transaction build() returns; build() advances the account's sequence.
BuiltTransaction(payment) ==
    [sequence |-> account.sequence + 1, memo |-> payment.identifier,
     amount |-> payment.amount, fee |-> fee]

\* What follows a build that validation and the account allow: the SDK
\* rejects the memo, address or amount ("sdk_error", nothing built), or the
\* transaction is built, signed and sent and the node cannot be reached,
\* rejects it, applies it and answers, or applies it and the answer is lost
\* before response["id"] is read.
SubmitOutcomes == {"sdk_error", "unreachable", "rejected", "accepted", "accepted_lost"}

\* The ledger applies a transaction only with the account's next sequence
\* number, a positive amount, a fee and the funds to cover both.
LedgerAccepts(tx) ==
    /\ tx.sequence = ledgerSeq + 1
    /\ tx.amount > 0
    /\ tx.fee >= LedgerBaseFee
    /\ tx.amount + tx.fee <= nodeBalance

\* The effect and the return of submit_payment once its path is known:
\* whether the balance was read, whether a transaction was built (then signed
\* and sent), whether the ledger applied it, and whether its id was read back.
SubmitReturn(payment_id, pending, q, built, tx, applied, success, exc) ==
    LET balRead == q # "unread"
        balance == IF balRead THEN BalanceOf(q) ELSE 0
    IN
    /\ account' = IF built THEN [account EXCEPT !.sequence = @ + 1] ELSE account
    /\ ledgerSeq' = IF applied THEN tx.sequence ELSE ledgerSeq
    /\ nodeBalance' = IF applied THEN nodeBalance - (tx.amount + tx.fee) ELSE nodeBalance
    /\ accepted' = IF applied THEN [accepted EXCEPT ![tx.memo] = @ + 1] ELSE accepted
    /\ open_payments' = IF success THEN RegistryDel(open_payments, payment_id)
                        ELSE open_payments
    /\ liveSubmit' = IF success THEN liveSubmit \ {payment_id} ELSE liveSubmit
    /\ last' = [NoCall EXCEPT
                   !.op = "submit_payment",
                   !.id = payment_id,
                   !.data = pending,
                   !.ret = IF success THEN "txid" ELSE "",
                   !.exc = exc,
                   !.raised = Escapes(exc),
                   !.ok = success,
                   !.balRead = balRead,
                   !.bal = balance,
                   !.softFail = (balRead /\ SoftFailed(q)),
                   !.nodeReq = ((balRead /\ CanQueryNode) \/ built),
                   !.built = built,
                   !.signed = built,
                   !.submitted = built,
                   !.ledgerOk = applied,
                   !.regBefore = open_payments]
    /\ UNCHANGED <<api_key, server, base_url, network, keypair, fee, initHistory, threads>>

\* What is raised inside submit_payment after the gate, by outcome.
SubmitException(out, success) ==
    CASE out = "sdk_error" -> "ValueError"
      [] out = "unreachable" -> "ConnectionError"
      [] out = "accepted_lost" -> "ConnectionError"
      [] ~success -> "BadRequestError"
      [] OTHER -> ""

SubmitPayment(payment_id, pending_payment) ==
    IF NothingToSubmit(payment_id, pending_payment)
    THEN SubmitReturn(payment_id, pending_payment, "unread", FALSE, NoTransaction,
                      FALSE, FALSE, "")
    ELSE \E q \in QueryOutcomes :
        LET payment == ResolvePayment(payment_id, pending_payment)
            tx == BuiltTransaction(payment)
        IN
        IF ~HasField(payment, "amount")
        THEN SubmitReturn(payment_id, pending_payment, q, FALSE,
                          NoTransaction, FALSE, FALSE, "KeyError")
        ELSE IF ~AmountParses(payment)
        THEN SubmitReturn(payment_id, pending_payment, q, FALSE,
                          NoTransaction, FALSE, FALSE, "InvalidOperation")
        ELSE IF InsufficientBalance(TotalCost(payment.amount, fee), BalanceOf(q))
        THEN SubmitReturn(payment_id, pending_payment, q, FALSE,
                          NoTransaction, FALSE, FALSE, "")
        ELSE IF ~CanBuild(payment)
        THEN SubmitReturn(payment_id, pending_payment, q, FALSE,
                          NoTransaction, FALSE, FALSE,
                          IF ValidatePaymentData(payment) THEN "AttributeError"
                          ELSE "PiNetworkError")
        ELSE \E out \in SubmitOutcomes :
            LET built == out # "sdk_error"
                applied == out \in {"accepted", "accepted_lost"} /\ LedgerAccepts(tx)
                success == applied /\ out = "accepted"
            IN
            /\ account.sequence < MaxSeq
            /\ ~SdkAccepts(payment) => out = "sdk_error"
            /\ SubmitReturn(payment_id, pending_payment, q, built, tx,
                            applied, success, SubmitException(out, success))

\* ----------------------------------------- complete_payment, cancel_payment
\* The txid argument of complete_payment only selects the request body.
CompletePayment(identifier, out) ==
    LET acked == RequestSent /\ out = "ok" IN
    /\ last' = [NoCall EXCEPT
                   !.op = "complete_payment",
                   !.exc = IF acked THEN "" ELSE "PiNetworkError",
                   !.raised = Escapes(IF acked THEN "" ELSE "PiNetworkError"),
                   !.id = identifier,
                   !.ret = IF acked THEN "True" ELSE "False",
                   !.ok = acked,
                   !.gateway = TRUE,
                   !.apiReq = RequestSent,
                   !.regBefore = open_payments]
    /\ UNCHANGED <<session, open_payments, ledger, history, threads>>

CancelPayment(identifier, out) ==
    LET acked == RequestSent /\ out = "ok" IN
    /\ last' = [NoCall EXCEPT
                   !.op = "cancel_payment",
                   !.exc = IF acked THEN "" ELSE "PiNetworkError",
                   !.raised = Escapes(IF acked THEN "" ELSE "PiNetworkError"),
                   !.id = identifier,
                   !.ret = IF acked THEN "True" ELSE "False",
                   !.ok = acked,
                   !.gateway = TRUE,
                   !.apiReq = RequestSent,
                   !.regBefore = open_payments]
    /\ UNCHANGED <<session, open_payments, ledger, history, threads>>

\* --------------------------------------------- get_incomplete_server_payments
GetIncompleteServerPayments(out) ==
    LET listed == RequestSent /\ out = "ok" IN
    /\ last' = [NoCall EXCEPT
                   !.op = "get_incomplete_server_payments",
                   !.exc = IF listed THEN "" ELSE "PiNetworkError",
                   !.raised = Escapes(IF listed THEN "" ELSE "PiNetworkError"),
                   !.ret = IF listed THEN "payments" ELSE "[]",
                   !.ok = listed,
                   !.gateway = TRUE,
                   !.apiReq = RequestSent,
                   !.regBefore = open_payments]
    /\ UNCHANGED <<session, open_payments, ledger, history, threads>>

\* ------------------------------------------------------------ the ledger
\* Other parties credit or debit the held account between calls.
LedgerChange(b) ==
    /\ b # nodeBalance
    /\ nodeBalance' = b
    /\ last' = NoCall
    /\ UNCHANGED <<session, open_payments, ledgerSeq, accepted, history, threads>>

Next ==
    \/ \E seed \in Seeds, net \in Networks : Initialize("key", seed, net)
    \/ \E q \in QueryOutcomes : GetBalance(q)
    \/ \E data \in Intents \cup {EmptyIntent} : CreatePayment(data)
    \/ \E id \in Ids, pending \in PendingIntents :
          SubmitPayment(id, pending)
    \/ \E id \in Ids, out \in AckOutcomes : CompletePayment(id, out)
    \/ \E id \in Ids, out \in AckOutcomes : CancelPayment(id, out)
    \/ \E out \in AckOutcomes : GetIncompleteServerPayments(out)
    \/ \E b \in Balances : LedgerChange(b)

Spec == Init /\ [][Next]_vars

\* ------------------------------------------- submit_payment, thread by thread
\* PiNetwork holds no lock: threads that share a session run submit_payment
\* side by side and change places at every network round trip. Each step below
\* is the code between two round trips.

\* A session after initialize succeeded and create_payment registered p1.
ConcInit ==
    /\ api_key = "key"
    /\ server = UrlFor("Pi Network")
    /\ account = [loaded |-> TRUE, sequence |-> 0]
    /\ base_url = UrlFor("Pi Network")
    /\ network = "Pi Network"
    /\ keypair = TRUE
    /\ fee = LedgerBaseFee
    /\ open_payments = RegistryPut(EmptyRegistry, "p1", Dict(1, "p1", "none"))
    /\ nodeBalance \in Balances
    /\ ledgerSeq = 0
    /\ accepted = [i \in Ids |-> 0]
    /\ initHistory = "ok"
    /\ liveSubmit = {"p1"}
    /\ threads = [t \in Threads |-> Idle]
    /\ last = NoCall

\* Lines 104-107: the guard and the lookup of the intent.
SubmitResolve(t, payment_id) ==
    /\ threads[t].pc = "idle"
    /\ threads' = [threads EXCEPT ![t] =
           IF NothingToSubmit(payment_id, NoIntent)
           THEN [@ EXCEPT !.pc = "done", !.id = payment_id]
           ELSE [@ EXCEPT !.pc = "resolved", !.id = payment_id,
                          !.payment = ResolvePayment(payment_id, NoIntent)]]
    /\ UNCHANGED <<session, open_payments, ledger, history, last>>

\* Lines 110-113: the balance query and the gate.
SubmitGate(t, q) ==
    /\ threads[t].pc = "resolved"
    /\ threads' = [threads EXCEPT ![t] =
           IF InsufficientBalance(TotalCost(threads[t].payment.amount, fee), BalanceOf(q))
           THEN [@ EXCEPT !.pc = "done", !.balance = BalanceOf(q)]
           ELSE [@ EXCEPT !.pc = "gated", !.balance = BalanceOf(q)]]
    /\ UNCHANGED <<session, open_payments, ledger, history, last>>

\* Line 115: the build, which advances the shared account's sequence.
SubmitBuild(t) ==
    /\ threads[t].pc = "gated"
    /\ account.sequence < MaxSeq
    /\ CanBuild(threads[t].payment)
    /\ threads' = [threads EXCEPT ![t] =
           [@ EXCEPT !.pc = "built", !.tx = BuiltTransaction(threads[t].payment)]]
    /\ account' = [account EXCEPT !.sequence = @ + 1]
    /\ UNCHANGED <<api_key, server, base_url, network, keypair, fee, open_payments,
                   ledger, history, last>>

\* Line 116: sign and submit; a failure leaves through the handler.
SubmitSend(t, out) ==
    LET tx == threads[t].tx
        applied == out \in {"accepted", "accepted_lost"} /\ LedgerAccepts(tx)
        success == applied /\ out = "accepted"
    IN
    /\ threads[t].pc = "built"
    /\ out # "sdk_error"
    /\ ledgerSeq' = IF applied THEN tx.sequence ELSE ledgerSeq
    /\ nodeBalance' = IF applied THEN nodeBalance - (tx.amount + tx.fee) ELSE nodeBalance
    /\ accepted' = IF applied THEN [accepted EXCEPT ![tx.memo] = @ + 1] ELSE accepted
    /\ threads' = [threads EXCEPT ![t] =
           [@ EXCEPT !.pc = IF success THEN "sent" ELSE "done", !.sent = TRUE]]
    /\ UNCHANGED <<session, open_payments, history, last>>

\* Lines 118-121: the removal and the return of the transaction id.
SubmitDelete(t) ==
    /\ threads[t].pc = "sent"
    /\ open_payments' = RegistryDel(open_payments, threads[t].id)
    /\ liveSubmit' = liveSubmit \ {threads[t].id}
    /\ threads' = [threads EXCEPT ![t] = [@ EXCEPT !.pc = "done", !.ret = "txid"]]
    /\ UNCHANGED <<session, ledger, initHistory, last>>

NextConc ==
    \/ \E t \in Threads : SubmitResolve(t, "p1")
    \/ \E t \in Threads, q \in QueryOutcomes : SubmitGate(t, q)
    \/ \E t \in Threads : SubmitBuild(t)
    \/ \E t \in Threads, out \in SubmitOutcomes : SubmitSend(t, out)
    \/ \E t \in Threads : SubmitDelete(t)
    \/ \E b \in Balances : LedgerChange(b)

SpecConc == ConcInit /\ [][NextConc]_vars

\* ================================================================ properties
LifecycleOps ==
    {"create_payment", "submit_payment", "complete_payment", "cancel_payment",
     "get_incomplete_server_payments"}

\* The failure sentinel of each operation.
Sentinel(op) ==
    CASE op \in {"create_payment", "submit_payment"} -> ""
      [] op \in {"initialize", "complete_payment", "cancel_payment"} -> "False"
      [] op = "get_incomplete_server_payments" -> "[]"
      [] OTHER -> ""

\* The intent has all six required fields.
AllSix(data) ==
    /\ data.kind = "dict"
    /\ data.missing = "none"

\* The intent has all six required fields and its amount is a decimal.
AllSixWithAmount(data) ==
    /\ AllSix(data)
    /\ data.empty # "amount"

\* The intent the last submit_payment had to submit: the explicit one if it
\* was given and non-empty, else the registry's snapshot.
Submitting ==
    IF last.data.kind = "dict" THEN last.data
    ELSE IF last.id \in DOMAIN last.regBefore THEN last.regBefore[last.id]
    ELSE NoIntent

\* C1: a create_payment on an intent with all six fields, amount A, cached
\* fee F and balance B read in that call, calls the remote create (and, on a
\* session with a base URL, sends the request) exactly when A + F/10^7 > B
\* does not hold; when it holds the call returns "" with no request and the
\* registry as it was.
BalanceGateFidelity ==
    (last.op = "create_payment" /\ AllSixWithAmount(last.data)) =>
        LET gateFails == last.data.amount + fee > last.bal IN
        /\ last.balRead
        /\ last.gateway <=> ~gateFails
        /\ base_url # "" => (last.apiReq <=> ~gateFails)
        /\ gateFails =>
            /\ last.ret = ""
            /\ ~last.apiReq
            /\ open_payments = last.regBefore

\* The gate passed on equality and the create was sent and registered.
BalanceGateWitness ==
    /\ last.op = "create_payment"
    /\ AllSixWithAmount(last.data)
    /\ fee > 0
    /\ last.data.amount + fee = last.bal
    /\ last.apiReq
    /\ last.ret \in DOMAIN open_payments

\* C2: a submit_payment builds, signs or submits a transaction only after
\* reading in that call a balance B with amount + fee/10^7 <= B for the
\* intent it submits; when amount + fee/10^7 > B it returns "", builds, signs
\* and submits nothing and leaves the registry as it was.
NoMovementWithoutBalance ==
    last.op = "submit_payment" =>
        /\ (last.built \/ last.signed \/ last.submitted \/ last.ledgerOk) =>
            /\ last.balRead
            /\ Submitting.kind = "dict"
            /\ Submitting.amount + fee <= last.bal
        /\ (/\ Submitting.kind = "dict"
            /\ Submitting.missing # "amount"
            /\ Submitting.amount + fee > last.bal) =>
            /\ last.ret = ""
            /\ ~last.built /\ ~last.signed /\ ~last.submitted /\ ~last.ledgerOk
            /\ open_payments = last.regBefore

\* A registered payment was submitted with a balance exactly covering it.
NoMovementWitness ==
    /\ last.op = "submit_payment"
    /\ last.data = NoIntent
    /\ last.submitted
    /\ last.ledgerOk
    /\ Submitting.amount + fee = last.bal

\* C3: the ledger accepts at most one transaction per payment identifier.
NeverDoubleSubmitted ==
    \A i \in Ids : accepted[i] <= 1

\* C4: after a submit_payment(id) that returns a transaction id, id is not in
\* the registry; after one that returns "", the registry is what it was.
SubmitRegistryOutcome ==
    last.op = "submit_payment" =>
        /\ last.ret # "" => last.id \notin DOMAIN open_payments
        /\ last.ret = "" => open_payments = last.regBefore

\* A registered payment was submitted and its entry is gone.
SubmitRegistryWitness ==
    /\ last.op = "submit_payment"
    /\ last.ret # ""
    /\ last.id \in DOMAIN last.regBefore
    /\ last.id \notin DOMAIN open_payments

\* C5 as stated: an identifier is registered exactly when a create succeeded
\* for it and no submit, complete or cancel has succeeded for it since; so
\* besides the amended statement, no identifier is registered right after a
\* complete or cancel succeeded for it.
RegistryMembershipOriginal ==
    /\ DOMAIN open_payments = liveSubmit
    /\ (last.op \in {"complete_payment", "cancel_payment"} /\ last.ok) =>
           last.id \notin DOMAIN open_payments

\* C5 amended: an identifier is registered exactly when a create succeeded
\* for it and no submit has succeeded for it since.
RegistryMembership ==
    DOMAIN open_payments = liveSubmit

\* A payment that was created and then cancelled or completed, not
\* submitted, is still registered.
RegistryMembershipWitness ==
    /\ last.op \in {"complete_payment", "cancel_payment"}
    /\ last.ok
    /\ last.id \in DOMAIN open_payments
    /\ last.id \in liveSubmit

\* C6: a call changes the registry only if it is a create_payment that
\* succeeded, which sets exactly the entry of the identifier it returns, or a
\* submit_payment that succeeded, which removes exactly the entry of the
\* identifier passed to it; every other call, and every failed one, leaves it
\* as it was.
RegistryFrame ==
    last.op # "none" =>
        \/ open_payments = last.regBefore
        \/ /\ last.op = "create_payment"
           /\ last.ok
           /\ DOMAIN open_payments = DOMAIN last.regBefore \cup {last.ret}
           /\ \A i \in DOMAIN last.regBefore \ {last.ret} :
                  open_payments[i] = last.regBefore[i]
        \/ /\ last.op = "submit_payment"
           /\ last.ok
           /\ last.id \in DOMAIN last.regBefore
           /\ DOMAIN open_payments = DOMAIN last.regBefore \ {last.id}
           /\ \A i \in DOMAIN open_payments : open_payments[i] = last.regBefore[i]

\* A successful submit removed one of two entries and kept the other.
RegistryFrameWitness ==
    /\ last.op = "submit_payment"
    /\ last.ok
    /\ Cardinality(DOMAIN last.regBefore) = 2
    /\ Cardinality(DOMAIN open_payments) = 1

\* C7: a create_payment on an intent that lacks a required field returns ""
\* with no balance query, no request to the node or the remote API, and the
\* registry as it was.
FailFastValidation ==
    (/\ last.op = "create_payment"
     /\ last.data.kind = "dict"
     /\ last.data.missing \in RequiredFields) =>
        /\ last.ret = ""
        /\ ~last.balRead
        /\ ~last.nodeReq
        /\ ~last.gateway
        /\ ~last.apiReq
        /\ open_payments = last.regBefore

\* An initialized, funded session refused an intent without its address.
FailFastWitness ==
    /\ last.op = "create_payment"
    /\ last.data.kind = "dict"
    /\ last.data.missing = "to_address"
    /\ initHistory = "ok"
    /\ nodeBalance >= last.data.amount + fee
    /\ last.ret = ""

\* C8: a submit_payment for an identifier not in the registry, with no
\* explicit intent (None or {}), returns "" with no balance query, no remote
\* call and no build, signature or submission.
SubmitUnknownDoesNothing ==
    (/\ last.op = "submit_payment"
     /\ last.id \notin DOMAIN last.regBefore
     /\ last.data \in {NoIntent, EmptyIntent}) =>
        /\ last.ret = ""
        /\ ~last.balRead
        /\ ~last.nodeReq
        /\ ~last.gateway
        /\ ~last.apiReq
        /\ ~last.built /\ ~last.signed /\ ~last.submitted /\ ~last.ledgerOk

\* On an initialized session with another payment registered, {} was passed
\* for an unknown identifier.
SubmitUnknownWitness ==
    /\ last.op = "submit_payment"
    /\ last.data = EmptyIntent
    /\ last.id \notin DOMAIN last.regBefore
    /\ DOMAIN last.regBefore # {}
    /\ initHistory = "ok"
    /\ last.ret = ""

\* C9: once an initialize has failed and none has succeeded, no lifecycle
\* call sends a request to the remote API or the node, and each returns its
\* failure sentinel.
NoUsableStateAfterFailedInit ==
    (initHistory = "failed" /\ last.op \in LifecycleOps) =>
        /\ ~last.apiReq
        /\ ~last.nodeReq
        /\ last.ret = Sentinel(last.op)

\* C10: on a session on which initialize was never called, every lifecycle
\* call returns its failure sentinel, raises nothing and leaves the registry
\* empty.
FailsBeforeInitialize ==
    (initHistory = "never" /\ last.op \in LifecycleOps) =>
        /\ last.ret = Sentinel(last.op)
        /\ ~last.ok
        /\ ~last.raised
        /\ open_payments = EmptyRegistry

\* Before any initialize, a complete intent of amount 0 passed the gate
\* (balance 0, fee 0) and the create still returned "".
FailsBeforeInitializeWitness ==
    /\ initHistory = "never"
    /\ last.op = "create_payment"
    /\ AllSix(last.data)
    /\ last.data.amount <= 0
    /\ last.gateway
    /\ last.ret = ""

\* C11: no call of a public operation lets an exception reach the caller,
\* and a call in whose body a step raised (validation, the balance query of
\* get_balance, the remote API, the response, the build, the submission)
\* returns its sentinel: False, zero, "" or the empty list. A balance query
\* that fails inside create_payment or submit_payment raises nothing there:
\* get_balance hands its zero to the gate, which is the subject of C14.
SentinelOnlyFailures ==
    last.op # "none" =>
        /\ ~last.raised
        /\ last.exc # "" =>
            IF last.op = "get_balance" THEN last.bal = 0
            ELSE last.ret = Sentinel(last.op)

\* The ledger applied a transaction, reading the answer failed, and
\* submit_payment returned "".
SentinelOnlyWitness ==
    /\ last.op = "submit_payment"
    /\ last.ledgerOk
    /\ last.exc = "ConnectionError"
    /\ ~last.raised
    /\ last.ret = ""

\* C12: create_payment returns a non-empty identifier exactly when the create
\* request was sent and a response carrying an identifier arrived; the
\* registry then maps the returned identifier to that response's snapshot
\* (all six fields, the returned identifier, the requested amount); and when
\* it returns "" the registry is as it was.
CreateRegistersWhatItReturns ==
    last.op = "create_payment" =>
        /\ last.ret # "" <=> (last.apiReq /\ last.carried)
        /\ last.ret # "" =>
            /\ last.ret \in DOMAIN open_payments
            /\ AllSix(open_payments[last.ret])
            /\ open_payments[last.ret].identifier = last.ret
            /\ open_payments[last.ret].amount = last.data.amount
        /\ last.ret = "" => open_payments = last.regBefore

\* A create whose response carried an identifier that was already registered
\* with another amount: the new snapshot took its place.
CreateRegistersWitness ==
    /\ last.op = "create_payment"
    /\ last.carried
    /\ last.ret \in DOMAIN last.regBefore
    /\ last.regBefore[last.ret].amount # last.data.amount
    /\ open_payments[last.ret].amount = last.data.amount

\* C13: whenever create_payment returns "", the remote API holds no payment
\* intent created by that call.
RemoteConsistentOnCreateFailure ==
    (last.op = "create_payment" /\ last.ret = "") => ~last.remoteCreated

\* The intent a gated call priced: create_payment's argument, or what
\* submit_payment resolved.
GatedIntent ==
    IF last.op = "create_payment" THEN last.data ELSE Submitting

\* The gated call went no further than the gate.
Refused ==
    /\ last.ret = ""
    /\ ~last.gateway
    /\ ~last.apiReq
    /\ ~last.built
    /\ ~last.submitted
    /\ ~last.ledgerOk

\* C14 as stated: with the balance query failed or without a native entry,
\* every create_payment and submit_payment, whatever the amount and the fee,
\* returns "" without a remote request and without building or submitting
\* (checked on sessions that fetched their base fee).
SoftFailRefusesAll ==
    (last.op \in {"create_payment", "submit_payment"} /\ last.softFail /\ fee > 0) =>
        /\ last.ret = ""
        /\ ~last.apiReq
        /\ ~last.built
        /\ ~last.submitted

\* C14 amended: with the balance query failed or without a native entry,
\* get_balance yields zero, and every create_payment and submit_payment on an
\* intent with amount + fee/10^7 > 0 (or with no usable amount) returns ""
\* without a remote request and without building or submitting.
SoftFailRefuses ==
    last.softFail =>
        /\ last.bal = 0
        /\ last.op \in {"create_payment", "submit_payment"} =>
            \/ Refused
            \/ /\ HasField(GatedIntent, "amount")
               /\ AmountParses(GatedIntent)
               /\ GatedIntent.amount + fee <= 0

\* The node holds the funds for a registered payment, the balance query
\* fails, and submit_payment refuses.
SoftFailRefusesWitness ==
    /\ last.op = "submit_payment"
    /\ last.softFail
    /\ last.nodeReq
    /\ last.id \in DOMAIN open_payments
    /\ account.loaded
    /\ GatedIntent.amount > 0
    /\ nodeBalance >= GatedIntent.amount + fee
    /\ Refused

\* C15 as stated: complete_payment or cancel_payment returns true for an
\* identifier only after the ledger accepted a transaction for it, and
\* submit_payment succeeds only for an identifier a create_payment registered.
LifecycleOrderOriginal ==
    /\ (last.op \in {"complete_payment", "cancel_payment"} /\ last.ok) =>
           accepted[last.id] >= 1
    /\ (last.op = "submit_payment" /\ last.ok) =>
           last.id \in DOMAIN last.regBefore

\* C15 amended: an identifier is registered only after a create_payment
\* returned it; a submit_payment succeeds only if the ledger accepted its
\* transaction in that call, only for a registered identifier when no
\* explicit intent is given, and leaves the identifier unregistered;
\* complete_payment and cancel_payment are caller-driven, they return true
\* only when the remote API was asked, whatever was submitted before.
LifecycleOrder ==
    /\ DOMAIN open_payments \subseteq liveSubmit
    /\ (last.op = "submit_payment" /\ last.ok) =>
        /\ last.ledgerOk
        /\ accepted[Submitting.identifier] >= 1
        /\ last.id \notin DOMAIN open_payments
        /\ ~Truthy(last.data) => last.id \in DOMAIN last.regBefore
    /\ (last.op \in {"complete_payment", "cancel_payment"} /\ last.ok) =>
        /\ last.apiReq
        /\ open_payments = last.regBefore

\* complete_payment returned true for a registered identifier for which the
\* ledger has accepted nothing.
LifecycleOrderWitness ==
    /\ last.op = "complete_payment"
    /\ last.ok
    /\ last.id \in DOMAIN open_payments
    /\ accepted[last.id] = 0

\* The threads inside submit_payment between the lookup of the intent and
\* the removal of the registry entry.
InFlight ==
    {t \in Threads : threads[t].pc \in {"resolved", "gated", "built", "sent"}}

\* C16: of the submit_payment calls that threads make side by side for one
\* registered identifier, at most one is between resolving the intent and
\* removing the entry, at most one sends a transaction, and the ledger
\* accepts at most one transaction for the identifier.
MutualExclusionOfSubmits ==
    /\ Cardinality(InFlight) <= 1
    /\ Cardinality({t \in Threads : threads[t].sent}) <= 1
    /\ \A i \in Ids : accepted[i] <= 1

\* The session the threads start from is one the calls reach: initialize,
\* create_payment, and a change of the balance by other parties.
ConcInitReached ==
    /\ initHistory = "ok"
    /\ api_key = "key"
    /\ keypair
    /\ server = UrlFor("Pi Network")
    /\ network = "Pi Network"
    /\ fee = LedgerBaseFee
    /\ account = [loaded |-> TRUE, sequence |-> 0]
    /\ base_url = UrlFor("Pi Network")
    /\ open_payments = RegistryPut(EmptyRegistry, "p1", Dict(1, "p1", "none"))
    /\ liveSubmit = {"p1"}
    /\ ledgerSeq = 0
    /\ accepted = [i \in Ids |-> 0]
    /\ last = NoCall

\* C17: create_payment and submit_payment reject an intent in which a
\* required field is present but empty: "" is returned, no create request is
\* sent and no transaction is submitted.
EmptyFieldsRejected ==
    (/\ last.op \in {"create_payment", "submit_payment"}
     /\ last.data.kind = "dict"
     /\ last.data.missing = "none"
     /\ last.data.empty # "none") =>
        /\ last.ret = ""
        /\ ~last.apiReq
        /\ ~last.submitted

\* C18: the sequence number of the cached account before each build is the
\* ledger's current one: after a submit_payment that built a transaction the
\* cached number is one past the ledger's, or equal to it if the ledger
\* applied the transaction.
CachedSequenceInStep ==
    (last.op = "submit_payment" /\ last.built) =>
        account.sequence = ledgerSeq + (IF last.ledgerOk THEN 0 ELSE 1)

\* C19: the call that follows a cancel_payment that returned true for a
\* registered identifier is not a submit_payment of that identifier, without
\* explicit intent, that sends a transaction.
CancelledMovesNoFunds ==
    [][(/\ last.op = "cancel_payment"
        /\ last.ok
        /\ last.id \in DOMAIN open_payments) =>
           ~(/\ last'.op = "submit_payment"
             /\ last'.id = last.id
             /\ ~Truthy(last'.data)
             /\ last'.submitted)]_vars

\* C20: an initialize with a seed that is not 56 characters long with a
\* leading 'S' returns False, makes no request to the node and leaves the
\* session fields and the registry as they were.
InitRejectsMalformedSeed ==
    [][(/\ last'.op = "initialize"
        /\ ~(last'.seed.lead = "S" /\ last'.seed.len = 56)) =>
           /\ last'.ret = "False"
           /\ ~last'.nodeReq
           /\ UNCHANGED <<session, open_payments>>]_vars
====
